---- MODULE Spec2Model ----
(***************************************************************************)
(* Arc-Halo database utilities (db/scripts/db_utils.py, example_init.py,   *)
(* test_connection.py).                                                    *)
(*                                                                         *)
(* The model follows one pooled psycopg2 connection through each of the   *)
(* three execute_* helpers of NeonDBConnection, the repository methods    *)
(* built on them and the seeding script.  The database is the set of      *)
(* COMMITTED rows; what a statement writes stays in the connection's       *)
(* pending list until that connection commits, and is discarded when the  *)
(* connection rolls back.                                                  *)
(***************************************************************************)
EXTENDS Integers, Sequences, FiniteSets, TLC

\* ------------------------------------------------------------------ bounds

\* Capacity of the pool.  The program passes maxconn=20 (db_utils.py:39); the
\* model keeps the comparison len(used) == maxconn and scales the number.
MaxConn == 2
\* Most rows the create_* methods insert in a run outside the seeding script.
MaxCreates == 1
\* Longest shape and largest dimension of the shapes drawn for create_tensor.
MaxRank == 2
MaxDim == 3
\* Longest payload handed to store_tensor_data.
MaxBytes == 1
\* Most statements in a script file handed to execute_script.
MaxScript == 1
\* Longest connection string drawn for the constructor and the diagnostic.
MaxUrl == 3

\* minconn of the pool.
MinConn == 1

\* One more caller than the pool has connections, so that it can run out.
Callers == 1 .. (MaxConn + 1)
\* The single call stack of a script (example_init.py runs one).
Client == 1

VARIABLES
    db,          \* committed rows, one set per table
    fkEnforced,  \* whether the deployed schema declares the foreign keys
    nextId,      \* the server's identifier generator
    pool,        \* ThreadedConnectionPool._pool: the idle connections
    lent,        \* len(ThreadedConnectionPool._used): the connections lent out
    closed,      \* ThreadedConnectionPool.closed
    call,        \* call[c]: the execute_* call caller c is in, or was last in
    stored,      \* payload of the last successful store per (tensor, chunk)
    trace,       \* whether a finished call's arguments and result are kept
    seed,        \* the seeding script's position and the ids it was given
    ctor,        \* NeonDBConnection.__init__: its position and what it was given
    diag         \* the diagnostic script's position, results and connections

vars == <<db, fkEnforced, nextId, pool, lent, closed, call, stored, trace, seed, ctor, diag>>

\* ---------------------------------------------------------------- database

NoStatus == "None"
Statuses == {"active", "archived"}
\* A status argument: None, the empty string, or a status.
StatusArgs == Statuses \cup {NoStatus, ""}

Model1 == [model_id |-> 1, status |-> "active", created_at |-> 2]
Model2 == [model_id |-> 2, status |-> "archived", created_at |-> 3]
Model3 == [model_id |-> 3, status |-> "active", created_at |-> 1]
InitModelRows == {Model1, Model2, Model3}
Tensor4 == [tensor_id |-> 4, model_id |-> 1, shape |-> <<2, 3>>, total_elements |-> 6]
Reactor5 == [reactor_id |-> 5]
\* The first identifier the server generates in a run.
FirstFreeId == Reactor5.reactor_id + 1

EmptyDb ==
    [models |-> {}, tensor_metadata |-> {}, tensor_data |-> {},
     cognitive_fusion_reactors |-> {}, reactor_models |-> {}]

\* The databases a run may start from: any of the three models, model 1 with
\* its tensor, the reactor there or not.
InitDbs ==
    { [EmptyDb EXCEPT !.models = ms,
                      !.tensor_metadata = IF Model1 \in ms THEN {Tensor4} ELSE {},
                      !.cognitive_fusion_reactors = rs] :
        ms \in {{}, {Model1}, InitModelRows}, rs \in SUBSET {Reactor5} }

\* The database the concurrent callers start from.
PoolDb ==
    [EmptyDb EXCEPT !.models = {Model1}, !.tensor_metadata = {Tensor4}]

ModelIds(d) == {r.model_id : r \in d.models}
TensorIds(d) == {r.tensor_id : r \in d.tensor_metadata}
ReactorIds(d) == {r.reactor_id : r \in d.cognitive_fusion_reactors}

\* One write of a transaction applied to a database.  An upsert replaces, in the
\* row with the same (tensor_id, chunk_index), the columns its SET clause names.
Apply(d, w) ==
    IF w.table = "tensor_data"
    THEN LET same == {r \in d.tensor_data :
                        r.tensor_id = w.row.tensor_id /\ r.chunk_index = w.row.chunk_index}
             upd(r) == [r EXCEPT
                          !.data_blob = IF "data_blob" \in w.set THEN w.row.data_blob ELSE @,
                          !.chunk_size = IF "chunk_size" \in w.set THEN w.row.chunk_size ELSE @]
         IN  IF same = {}
             THEN [d EXCEPT !.tensor_data = @ \cup {w.row}]
             ELSE [d EXCEPT !.tensor_data = (@ \ same) \cup {upd(r) : r \in same}]
    ELSE [d EXCEPT ![w.table] = @ \cup {w.row}]

RECURSIVE ApplyAll(_, _)
ApplyAll(d, ws) == IF ws = <<>> THEN d ELSE ApplyAll(Apply(d, Head(ws)), Tail(ws))

\* ORDER BY created_at DESC of a set of model rows.
RECURSIVE OrderByCreatedDesc(_)
OrderByCreatedDesc(rows) ==
    IF rows = {} THEN <<>>
    ELSE LET first == CHOOSE r \in rows : \A q \in rows : q.created_at <= r.created_at
         IN  <<first>> \o OrderByCreatedDesc(rows \ {first})

\* The view v_reactor_status: one record per reactor with the number of models
\* linked to it.
ReactorStatusView(d) ==
    { [reactor_id |-> r.reactor_id,
       active_models |-> Cardinality({m \in d.reactor_models : m.reactor_id = r.reactor_id})] :
        r \in d.cognitive_fusion_reactors }

\* -------------------------------------------------------------- statements

\* The status a new model row gets from the schema's column default.
DefaultStatus == "active"

Result(rows, n, writes, ids) ==
    [ok |-> TRUE, exc |-> "none", hasRows |-> TRUE, rows |-> rows, rowcount |-> n,
     writes |-> writes, ids |-> ids]
Done(n, writes) ==
    [ok |-> TRUE, exc |-> "none", hasRows |-> FALSE, rows |-> <<>>, rowcount |-> n,
     writes |-> writes, ids |-> 0]
Rejected(exc) ==
    [ok |-> FALSE, exc |-> exc, hasRows |-> FALSE, rows |-> <<>>, rowcount |-> 0,
     writes |-> <<>>, ids |-> 0]

\* A foreign key of the schema: a row may only name rows that exist.
References(fk, ids, id) == fk => id \in ids

\* A model is linked to a reactor once.
AlreadyLinked(v, s) ==
    \E m \in v.reactor_models : m.reactor_id = s.reactor_id /\ m.model_id = s.model_id

\* What the server does with one statement, run against the rows the
\* transaction sees (v), with `id` the next generated identifier and `fk`
\* whether the schema declares the foreign keys.
Run(s, v, id, fk) ==
    CASE s.kind = "insert_model" ->
           Result(<<[model_id |-> id]>>, 1,
                  <<[table |-> "models",
                     row |-> [model_id |-> id, status |-> DefaultStatus, created_at |-> id]]>>, 1)
      [] s.kind = "select_model" ->
           Result(OrderByCreatedDesc({r \in v.models : r.model_id = s.model_id}), 0, <<>>, 0)
      [] s.kind = "select_models_by_status" ->
           Result(OrderByCreatedDesc({r \in v.models : r.status = s.status}), 0, <<>>, 0)
      [] s.kind = "select_models" ->
           Result(OrderByCreatedDesc(v.models), 0, <<>>, 0)
      [] s.kind = "insert_tensor" ->
           IF ~References(fk, ModelIds(v), s.model_id)
           THEN Rejected("ForeignKeyViolation")
           ELSE Result(<<[tensor_id |-> id]>>, 1,
                       <<[table |-> "tensor_metadata",
                          row |-> [tensor_id |-> id, model_id |-> s.model_id,
                                   shape |-> s.shape, total_elements |-> s.total_elements]]>>, 1)
      [] s.kind = "upsert_tensor_data" ->
           IF ~References(fk, TensorIds(v), s.tensor_id)
           THEN Rejected("ForeignKeyViolation")
           ELSE Done(1, <<[table |-> "tensor_data", set |-> s.set,
                           row |-> [tensor_id |-> s.tensor_id, chunk_index |-> s.chunk_index,
                                    data_blob |-> s.data_blob, chunk_size |-> s.chunk_size]]>>)
      [] s.kind = "insert_reactor" ->
           Result(<<[reactor_id |-> id]>>, 1,
                  <<[table |-> "cognitive_fusion_reactors", row |-> [reactor_id |-> id]]>>, 1)
      [] s.kind = "insert_reactor_model" ->
           IF ~(/\ References(fk, ReactorIds(v), s.reactor_id)
                 /\ References(fk, ModelIds(v), s.model_id))
           THEN Rejected("ForeignKeyViolation")
           ELSE IF AlreadyLinked(v, s)
           THEN Rejected("UniqueViolation")
           ELSE Done(1, <<[table |-> "reactor_models",
                           row |-> [reactor_id |-> s.reactor_id, model_id |-> s.model_id,
                                    model_role |-> s.model_role, weight |-> s.weight]]>>)
      [] s.kind = "select_reactor_status" ->
           Result(IF \E r \in ReactorStatusView(v) : r.reactor_id = s.reactor_id
                  THEN <<CHOOSE r \in ReactorStatusView(v) : r.reactor_id = s.reactor_id>>
                  ELSE <<>>, 0, <<>>, 0)
      [] OTHER -> Rejected("SyntaxError")

\* A script file's statements run one after another in one transaction; the
\* first that is rejected ends the run, and what the earlier ones wrote stays
\* pending in the failed transaction.
RECURSIVE RunScript(_, _, _, _, _)
RunScript(ss, v, id, fk, acc) ==
    IF ss = <<>> THEN Done(0, acc)
    ELSE LET r == Run(Head(ss), v, id, fk)
         IN  IF ~r.ok THEN [Rejected(r.exc) EXCEPT !.writes = acc]
             ELSE RunScript(Tail(ss), ApplyAll(v, r.writes), id + r.ids, fk, acc \o r.writes)

\* -------------------------------------------------------------------- pool

NoConn == [status |-> "none", pending |-> <<>>]
FreshConn == [status |-> "idle", pending |-> <<>>]

\* A pool that opens a new connection however many are lent out.
GetConnectionUnbounded ==
    IF pool # <<>>
    THEN [ok |-> TRUE, conn |-> pool[Len(pool)], pool |-> SubSeq(pool, 1, Len(pool) - 1),
          lent |-> lent + 1]
    ELSE [ok |-> TRUE, conn |-> FreshConn, pool |-> pool, lent |-> lent + 1]

\* get_connection: pool.getconn().  An idle connection is popped; with none
\* idle a new one is opened unless maxconn are lent out already, and then the
\* pool raises PoolError.
GetConnection ==
    IF closed THEN [ok |-> FALSE, conn |-> NoConn, pool |-> pool, lent |-> lent]
    ELSE IF pool # <<>>
    THEN [ok |-> TRUE, conn |-> pool[Len(pool)], pool |-> SubSeq(pool, 1, Len(pool) - 1),
          lent |-> lent + 1]
    ELSE IF lent = MaxConn
    THEN [ok |-> FALSE, conn |-> NoConn, pool |-> pool, lent |-> lent]
    ELSE [ok |-> TRUE, conn |-> FreshConn, pool |-> pool, lent |-> lent + 1]

\* return_connection: pool.putconn(conn).  Below minconn idle connections the
\* pool keeps the connection, rolling back whatever transaction is left on it;
\* otherwise it closes the connection, which ends its transaction as well.
ReturnConnection(conn) ==
    [pool |-> IF Len(pool) < MinConn
              THEN Append(pool, IF conn.status # "idle" THEN FreshConn ELSE conn)
              ELSE pool,
     lent |-> lent - 1]

\* -------------------------------------------------------------------- calls

NoOut == [kind |-> "none", exc |-> "none", id |-> 0, rows |-> <<>>, n |-> 0]
Raise(e) == [NoOut EXCEPT !.kind = "raise", !.exc = e]

IdleCall ==
    [pc |-> "idle", fn |-> "none", method |-> "none", args |-> <<>>,
     stmt |-> [kind |-> "none"],
     conn |-> NoConn, exc |-> "none", rows |-> <<>>, rowcount |-> 0,
     db0 |-> EmptyDb, puts |-> 0, putStatus |-> "none",
     rolledBack |-> FALSE, out |-> NoOut]

\* get_model and get_reactor_status returning results[0] without looking.
MethodOutUnchecked(k) ==
    IF k.exc # "none" THEN Raise(k.exc)
    ELSE IF k.rows = <<>> THEN Raise("IndexError")
    ELSE [NoOut EXCEPT !.kind = "row", !.rows = <<k.rows[1]>>]

\* What the method hands its caller once the execute_* call under it is over.
MethodOut(k) ==
    IF k.exc # "none" THEN Raise(k.exc)
    ELSE CASE k.method \in {"create_model", "create_tensor", "create_reactor"} ->
                IF k.rows = <<>> THEN Raise("IndexError")
                ELSE [NoOut EXCEPT !.kind = "id",
                                   !.id = IF k.method = "create_model" THEN k.rows[1].model_id
                                          ELSE IF k.method = "create_tensor"
                                          THEN k.rows[1].tensor_id
                                          ELSE k.rows[1].reactor_id]
           [] k.method \in {"get_model", "get_reactor_status"} ->
                IF k.rows # <<>> THEN [NoOut EXCEPT !.kind = "row", !.rows = <<k.rows[1]>>]
                ELSE [NoOut EXCEPT !.kind = "None"]
           [] k.method \in {"list_models", "execute_query"} ->
                [NoOut EXCEPT !.kind = "rows", !.rows = k.rows]
           [] k.method = "execute_command" ->
                [NoOut EXCEPT !.kind = "count", !.n = k.rowcount]
           [] OTHER -> [NoOut EXCEPT !.kind = "None"]

\* A call that is over: caller c is idle again.  A traced run keeps the whole
\* call for inspection; otherwise only how it ended.
Finished(k) ==
    LET f == [k EXCEPT !.pc = "idle", !.conn = NoConn, !.out = MethodOut(k)]
    IN  IF trace THEN f
        ELSE [IdleCall EXCEPT !.fn = f.fn, !.exc = f.exc, !.puts = f.puts,
                              !.putStatus = f.putStatus]

\* The first line of each execute_*: conn = self.get_connection().  A PoolError
\* leaves the call before its try block: nothing was acquired.
Begin(c, fn, method, args, stmt) ==
    /\ call[c].pc = "idle"
    /\ LET g == GetConnection
           k == [IdleCall EXCEPT !.fn = fn, !.method = method, !.args = args, !.stmt = stmt,
                                 !.db0 = IF trace THEN db ELSE EmptyDb]
       IN  /\ pool' = g.pool
           /\ lent' = g.lent
           /\ call' = [call EXCEPT ![c] =
                         IF g.ok THEN [k EXCEPT !.pc = "acquired", !.conn = g.conn]
                         ELSE Finished([k EXCEPT !.exc = "PoolError"])]
    /\ UNCHANGED <<db, fkEnforced, nextId, closed, trace, ctor, diag, stored>>

\* cursor.execute(...) on caller c's connection: the statement's outcome `r`,
\* or a failure that has nothing to do with the statement (ext).  A statement
\* that ran leaves the transaction open with its writes pending; a failure
\* leaves it failed.
Executed(k, r, ext) ==
    IF ext THEN [k EXCEPT !.exc = "OperationalError", !.conn.status = "inerror"]
    ELSE IF ~r.ok
    THEN [k EXCEPT !.exc = r.exc, !.conn.status = "inerror",
                   !.conn.pending = @ \o r.writes]
    ELSE [k EXCEPT !.conn.status = "intrans", !.conn.pending = @ \o r.writes,
                   !.rows = r.rows, !.rowcount = r.rowcount]

Outcome(k) ==
    IF k.stmt.kind = "script"
    THEN RunScript(k.stmt.statements, ApplyAll(db, k.conn.pending), nextId, fkEnforced, <<>>)
    ELSE Run(k.stmt, ApplyAll(db, k.conn.pending), nextId, fkEnforced)

\* ------------------------------------------------------------ execute_query

\* with conn.cursor(...): cursor.execute(query, params); cursor.fetchall().
\* fetchall() on a statement that produced no result set raises.
QueryExecute(c) ==
    /\ call[c].pc = "acquired" /\ call[c].fn = "execute_query"
    /\ \E ext \in BOOLEAN :
         LET r == Outcome(call[c])
             k == Executed(call[c], r, ext)
         IN  /\ call' = [call EXCEPT ![c] =
                           [(IF k.exc = "none" /\ ~r.hasRows
                             THEN [k EXCEPT !.exc = "ProgrammingError"] ELSE k)
                            EXCEPT !.pc = "executed"]]
             /\ nextId' = IF ext THEN nextId ELSE nextId + r.ids
    /\ UNCHANGED <<db, fkEnforced, pool, lent, closed, trace, ctor, diag, stored, seed>>

\* execute_query with a conn.commit() before the connection goes back.
QueryReturnCommitting(c) ==
    /\ call[c].pc = "executed" /\ call[c].fn = "execute_query"
    /\ LET p == ReturnConnection(call[c].conn) IN pool' = p.pool /\ lent' = p.lent
    /\ call' = [call EXCEPT ![c] =
                  Finished([@ EXCEPT !.puts = @ + 1, !.putStatus = "idle"])]
    /\ db' = IF call[c].exc = "none" THEN ApplyAll(db, call[c].conn.pending) ELSE db
    /\ UNCHANGED <<fkEnforced, nextId, closed, trace, ctor, diag, stored, seed>>

\* finally: self.return_connection(conn); then the rows are returned or the
\* failure propagates.  Nothing here commits or rolls back.
QueryReturn(c) ==
    /\ call[c].pc = "executed" /\ call[c].fn = "execute_query"
    /\ LET p == ReturnConnection(call[c].conn) IN pool' = p.pool /\ lent' = p.lent
    /\ call' = [call EXCEPT ![c] =
                  Finished([@ EXCEPT !.puts = @ + 1, !.putStatus = call[c].conn.status])]
    /\ UNCHANGED <<db, fkEnforced, nextId, closed, trace, ctor, diag, stored, seed>>

\* ---------------------------------------------------------- execute_command

\* cursor.execute(command, params)
CommandExecute(c) ==
    /\ call[c].pc = "acquired" /\ call[c].fn = "execute_command"
    /\ \E ext \in BOOLEAN :
         LET r == Outcome(call[c])
             k == Executed(call[c], r, ext)
         IN  /\ call' = [call EXCEPT ![c] =
                           [k EXCEPT !.pc = IF k.exc = "none" THEN "executed" ELSE "failed"]]
             /\ nextId' = IF ext THEN nextId ELSE nextId + r.ids
    /\ UNCHANGED <<db, fkEnforced, pool, lent, closed, trace, ctor, diag, stored, seed>>

\* conn.commit(): the pending writes become committed rows, or the commit
\* fails and nothing of the transaction is kept.
Commit(c) ==
    \E ext \in BOOLEAN :
       IF ext
       THEN /\ call' = [call EXCEPT ![c] =
                          [@ EXCEPT !.pc = "failed", !.exc = "OperationalError",
                                    !.conn.status = "inerror"]]
            /\ db' = db
       ELSE /\ call' = [call EXCEPT ![c] =
                          [@ EXCEPT !.pc = "committed", !.conn = FreshConn]]
            /\ db' = ApplyAll(db, call[c].conn.pending)

CommandCommit(c) ==
    /\ call[c].pc = "executed" /\ call[c].fn = "execute_command"
    /\ Commit(c)
    /\ UNCHANGED <<fkEnforced, nextId, pool, lent, closed, trace, ctor, diag, stored, seed>>

\* conn.rollback(): the transaction ends and its pending writes are gone.
Rollback(c) ==
    call' = [call EXCEPT ![c] =
               [@ EXCEPT !.pc = "rolledback", !.conn = FreshConn, !.rolledBack = TRUE]]

\* execute_command whose except block re-raises without conn.rollback().
CommandRollbackSkipped(c) ==
    /\ call[c].pc = "failed" /\ call[c].fn = "execute_command"
    /\ call' = [call EXCEPT ![c] = [@ EXCEPT !.pc = "rolledback"]]
    /\ UNCHANGED <<db, fkEnforced, nextId, pool, lent, closed, trace, ctor, diag, stored, seed>>

\* except Exception: conn.rollback(); logger.error(...); raise
CommandRollback(c) ==
    /\ call[c].pc = "failed" /\ call[c].fn = "execute_command"
    /\ Rollback(c)
    /\ UNCHANGED <<db, fkEnforced, nextId, pool, lent, closed, trace, ctor, diag, stored, seed>>

\* The payload a finished store_tensor_data call stored, remembered per
\* (tensor_id, chunk_index).
Remember(k) ==
    IF k.method = "store_tensor_data" /\ k.exc = "none"
    THEN [x \in DOMAIN stored \cup {<<k.stmt.tensor_id, k.stmt.chunk_index>>} |->
            IF x = <<k.stmt.tensor_id, k.stmt.chunk_index>> THEN k.stmt.data_blob
            ELSE stored[x]]
    ELSE stored

\* finally: self.return_connection(conn); then cursor.rowcount is returned or
\* the failure propagates.
CommandReturn(c) ==
    /\ call[c].pc \in {"committed", "rolledback"} /\ call[c].fn = "execute_command"
    /\ LET p == ReturnConnection(call[c].conn) IN pool' = p.pool /\ lent' = p.lent
    /\ call' = [call EXCEPT ![c] =
                  Finished([@ EXCEPT !.puts = @ + 1, !.putStatus = call[c].conn.status])]
    /\ stored' = Remember(call[c])
    /\ UNCHANGED <<db, fkEnforced, nextId, closed, trace, ctor, diag, seed>>

\* ----------------------------------------------------------- execute_script

\* with open(script_path, 'r') as f: script = f.read()
ScriptRead(c) ==
    /\ call[c].pc = "acquired" /\ call[c].fn = "execute_script"
    /\ call' = [call EXCEPT ![c] =
                  IF call[c].stmt.readable THEN [@ EXCEPT !.pc = "read"]
                  ELSE [@ EXCEPT !.pc = "failed", !.exc = "FileNotFoundError"]]
    /\ UNCHANGED <<db, fkEnforced, nextId, pool, lent, closed, trace, ctor, diag, stored, seed>>

\* cursor.execute(script)
ScriptExecute(c) ==
    /\ call[c].pc = "read" /\ call[c].fn = "execute_script"
    /\ \E ext \in BOOLEAN :
         LET r == Outcome(call[c])
             k == Executed(call[c], r, ext)
         IN  /\ call' = [call EXCEPT ![c] =
                           [k EXCEPT !.pc = IF k.exc = "none" THEN "executed" ELSE "failed"]]
             /\ nextId' = IF ext THEN nextId ELSE nextId + r.ids
    /\ UNCHANGED <<db, fkEnforced, pool, lent, closed, trace, ctor, diag, stored, seed>>

\* conn.commit()
ScriptCommit(c) ==
    /\ call[c].pc = "executed" /\ call[c].fn = "execute_script"
    /\ Commit(c)
    /\ UNCHANGED <<fkEnforced, nextId, pool, lent, closed, trace, ctor, diag, stored, seed>>

\* except Exception: conn.rollback(); logger.error(...); raise
ScriptRollback(c) ==
    /\ call[c].pc = "failed" /\ call[c].fn = "execute_script"
    /\ Rollback(c)
    /\ UNCHANGED <<db, fkEnforced, nextId, pool, lent, closed, trace, ctor, diag, stored, seed>>

\* execute_script that gives the connection back only when the script ran.
ScriptReturnLeaky(c) ==
    /\ call[c].pc \in {"committed", "rolledback"} /\ call[c].fn = "execute_script"
    /\ LET p == IF call[c].exc = "none" THEN ReturnConnection(call[c].conn)
                ELSE [pool |-> pool, lent |-> lent]
       IN  pool' = p.pool /\ lent' = p.lent
    /\ call' = [call EXCEPT ![c] =
                  Finished([@ EXCEPT !.puts = IF call[c].exc = "none" THEN @ + 1 ELSE @,
                                     !.putStatus = call[c].conn.status])]
    /\ UNCHANGED <<db, fkEnforced, nextId, closed, trace, ctor, diag, stored, seed>>

\* finally: self.return_connection(conn)
ScriptReturn(c) ==
    /\ call[c].pc \in {"committed", "rolledback"} /\ call[c].fn = "execute_script"
    /\ LET p == ReturnConnection(call[c].conn) IN pool' = p.pool /\ lent' = p.lent
    /\ call' = [call EXCEPT ![c] =
                  Finished([@ EXCEPT !.puts = @ + 1, !.putStatus = call[c].conn.status])]
    /\ UNCHANGED <<db, fkEnforced, nextId, closed, trace, ctor, diag, stored, seed>>

\* ------------------------------------------------------------- repositories

\* ModelRepository.create_model: INSERT INTO models ... RETURNING model_id,
\* through execute_query.
CreateModelStmt == [kind |-> "insert_model"]

\* ModelRepository.get_model: SELECT * FROM models WHERE model_id = %s::uuid
GetModelStmt(model_id) == [kind |-> "select_model", model_id |-> model_id]

\* list_models that never filters.
ListModelsStmtUnfiltered(status) == [kind |-> "select_models"]

\* ModelRepository.list_models: `if status:` picks the filtered query, so None
\* and the empty string both take the unfiltered one.
ListModelsStmt(status) ==
    IF status \notin {NoStatus, ""}
    THEN [kind |-> "select_models_by_status", status |-> status]
    ELSE [kind |-> "select_models"]

\* total_elements = 1; for dim in shape: total_elements *= dim
RECURSIVE Accumulate(_, _)
Accumulate(total, dims) ==
    IF dims = <<>> THEN total ELSE Accumulate(total * Head(dims), Tail(dims))

\* The loop started from 0.
TotalElementsFromZero(shape) == Accumulate(0, shape)

TotalElements(shape) == Accumulate(1, shape)

\* TensorRepository.create_tensor: INSERT INTO tensor_metadata ... RETURNING
\* tensor_id, through execute_query.
CreateTensorStmt(model_id, shape) ==
    [kind |-> "insert_tensor", model_id |-> model_id, shape |-> shape,
     total_elements |-> TotalElements(shape)]

\* An upsert whose SET clause leaves chunk_size out.
StoreTensorDataStmtStaleSize(tensor_id, data, chunk_index) ==
    [kind |-> "upsert_tensor_data", tensor_id |-> tensor_id, chunk_index |-> chunk_index,
     data_blob |-> data, chunk_size |-> Len(data), set |-> {"data_blob"}]

\* TensorRepository.store_tensor_data: INSERT ... ON CONFLICT (tensor_id,
\* chunk_index) DO UPDATE SET data_blob = ..., chunk_size = ..., with
\* len(data) as the chunk size.
StoreTensorDataStmt(tensor_id, data, chunk_index) ==
    [kind |-> "upsert_tensor_data", tensor_id |-> tensor_id, chunk_index |-> chunk_index,
     data_blob |-> data, chunk_size |-> Len(data), set |-> {"data_blob", "chunk_size"}]

\* ReactorRepository.create_reactor: INSERT INTO cognitive_fusion_reactors ...
\* RETURNING reactor_id, through execute_query.
CreateReactorStmt == [kind |-> "insert_reactor"]

\* ReactorRepository.add_model_to_reactor: INSERT INTO reactor_models.
AddModelToReactorStmt(reactor_id, model_id, model_role, weight) ==
    [kind |-> "insert_reactor_model", reactor_id |-> reactor_id, model_id |-> model_id,
     model_role |-> model_role, weight |-> weight]

\* ReactorRepository.get_reactor_status: SELECT * FROM v_reactor_status WHERE
\* reactor_id = %s::uuid
GetReactorStatusStmt(reactor_id) ==
    [kind |-> "select_reactor_status", reactor_id |-> reactor_id]

\* The call a repository method makes: which execute_* it goes through and
\* with which statement.
MethodFn(method) ==
    IF method \in {"store_tensor_data", "add_model_to_reactor"}
    THEN "execute_command" ELSE "execute_query"

MethodStmt(method, a) ==
    CASE method = "create_model" -> CreateModelStmt
      [] method = "get_model" -> GetModelStmt(a[1])
      [] method = "list_models" -> ListModelsStmt(a[1])
      [] method = "create_tensor" -> CreateTensorStmt(a[1], a[2])
      [] method = "store_tensor_data" -> StoreTensorDataStmt(a[1], a[2], a[3])
      [] method = "create_reactor" -> CreateReactorStmt
      [] method = "add_model_to_reactor" -> AddModelToReactorStmt(a[1], a[2], a[3], a[4])
      [] method = "get_reactor_status" -> GetReactorStatusStmt(a[1])

Invoke(c, method, a) == Begin(c, MethodFn(method), method, a, MethodStmt(method, a))

\* Identifiers handed to the methods: rows that may exist, and 9, which no
\* table holds.
ModelIdArgs == {1, 3, 9}
TensorIdArgs == {4}
ReactorIdArgs == {5, 9}
ChunkIndexes == {0, 1}

RECURSIVE SeqsUpTo(_, _)
SeqsUpTo(S, n) ==
    IF n = 0 THEN {<<>>}
    ELSE SeqsUpTo(S, n - 1) \cup {Append(q, x) : q \in SeqsUpTo(S, n - 1), x \in S}

Payloads == SeqsUpTo({0}, MaxBytes)
Shapes == SeqsUpTo(1 .. MaxDim, MaxRank)
\* The shapes of the seeding script's two tensors, and the empty shape.
SeedShapes == {<<50000, 512>>, <<1024, 512>>, <<>>}

Created == nextId - FirstFreeId

CreateModel(c) ==
    /\ Created < MaxCreates
    /\ Invoke(c, "create_model", <<>>)
    /\ UNCHANGED seed

GetModel(c) ==
    /\ \E id \in ModelIdArgs : Invoke(c, "get_model", <<id>>)
    /\ UNCHANGED seed

ListModels(c) ==
    /\ \E status \in StatusArgs : Invoke(c, "list_models", <<status>>)
    /\ UNCHANGED seed

CreateTensor(c, shapes) ==
    /\ Created < MaxCreates
    /\ \E id \in ModelIdArgs, shape \in shapes : Invoke(c, "create_tensor", <<id, shape>>)
    /\ UNCHANGED seed

StoreTensorData(c) ==
    /\ \E id \in TensorIdArgs, data \in Payloads, i \in ChunkIndexes :
         Invoke(c, "store_tensor_data", <<id, data, i>>)
    /\ UNCHANGED seed

CreateReactor(c) ==
    /\ Created < MaxCreates
    /\ Invoke(c, "create_reactor", <<>>)
    /\ UNCHANGED seed

AddModelToReactor(c) ==
    /\ \E r \in ReactorIdArgs : Invoke(c, "add_model_to_reactor", <<r, 1, "primary", "1.0">>)
    /\ UNCHANGED seed

GetReactorStatus(c) ==
    /\ \E r \in ReactorIdArgs : Invoke(c, "get_reactor_status", <<r>>)
    /\ UNCHANGED seed

\* ------------------------------------------------- callers of execute_* itself

\* Statements handed to execute_query and execute_command directly: a read, a
\* write without RETURNING, and text the server rejects.
Invalid == [kind |-> "invalid"]
RawQueries == {GetModelStmt(1), StoreTensorDataStmt(4, <<0>>, 0)}
RawCommands == {StoreTensorDataStmt(4, <<0>>, 0), Invalid}
\* Script files: unreadable, or holding up to MaxScript statements.
Scripts ==
    {[kind |-> "script", readable |-> FALSE, statements |-> <<>>]} \cup
    {[kind |-> "script", readable |-> TRUE, statements |-> ss] :
        ss \in SeqsUpTo({StoreTensorDataStmt(4, <<0>>, 0), Invalid}, MaxScript) \ {<<>>}}

ExecuteQuery(c) ==
    /\ \E stmt \in RawQueries : Begin(c, "execute_query", "execute_query", <<>>, stmt)
    /\ UNCHANGED seed

ExecuteCommand(c) ==
    /\ \E stmt \in RawCommands : Begin(c, "execute_command", "execute_command", <<>>, stmt)
    /\ UNCHANGED seed

ExecuteScript(c) ==
    /\ \E script \in Scripts : Begin(c, "execute_script", "execute_script", <<>>, script)
    /\ UNCHANGED seed

\* ------------------------------------------------------------ seeding script

\* create_example_transformer_model: the repository calls in the order the
\* script makes them.
SeedSteps ==
    <<"create_model", "token_embeddings", "position_embeddings", "create_reactor",
      "add_model_to_reactor", "get_model", "get_reactor_status">>

SeedMethod(step) ==
    IF step \in {"token_embeddings", "position_embeddings"} THEN "create_tensor" ELSE step

\* vocab_size, max_position_embeddings and hidden_size of model_config.
VocabSize == 50000
MaxPositionEmbeddings == 1024
HiddenSize == 512

SeedArgs(step) ==
    CASE step = "token_embeddings" -> <<seed.model_id, <<VocabSize, HiddenSize>>>>
      [] step = "position_embeddings" -> <<seed.model_id, <<MaxPositionEmbeddings, HiddenSize>>>>
      [] step = "add_model_to_reactor" -> <<seed.reactor_id, seed.model_id, "primary", "1.0">>
      [] step = "get_model" -> <<seed.model_id>>
      [] step = "get_reactor_status" -> <<seed.reactor_id>>
      [] OTHER -> <<>>

StepAfter(step) ==
    LET i == CHOOSE j \in 1 .. Len(SeedSteps) : SeedSteps[j] = step
    IN  IF i = Len(SeedSteps) THEN "done" ELSE SeedSteps[i + 1]

\* The script makes its next repository call.
SeedCall ==
    /\ seed.pc \notin {"off", "done", "failed"} /\ ~seed.busy
    /\ Invoke(Client, SeedMethod(seed.pc), SeedArgs(seed.pc))
    /\ seed' = [seed EXCEPT !.busy = TRUE]

\* The call is over: the script keeps what it returned and goes on, or the
\* exception takes it to its except block.
SeedNext ==
    /\ seed.busy /\ call[Client].pc = "idle"
    /\ LET o == call[Client].out
       IN  seed' =
             IF o.kind = "raise"
             THEN [seed EXCEPT !.busy = FALSE, !.pc = "failed", !.exc = o.exc,
                               !.failedAt = seed.pc]
             ELSE [seed EXCEPT
                     !.busy = FALSE, !.pc = StepAfter(seed.pc),
                     !.model_id = IF seed.pc = "create_model" THEN o.id ELSE @,
                     !.token_embed_id = IF seed.pc = "token_embeddings" THEN o.id ELSE @,
                     !.pos_embed_id = IF seed.pc = "position_embeddings" THEN o.id ELSE @,
                     !.reactor_id = IF seed.pc = "create_reactor" THEN o.id ELSE @,
                     !.model_info = IF seed.pc = "get_model" THEN o ELSE @,
                     !.reactor_status = IF seed.pc = "get_reactor_status" THEN o ELSE @]
    /\ UNCHANGED <<db, fkEnforced, nextId, pool, lent, closed, call, stored, trace, ctor, diag>>

\* finally: db.close_all()
SeedCloseAll ==
    /\ seed.pc \in {"done", "failed"} /\ ~closed
    /\ closed' = TRUE
    /\ pool' = <<>>
    /\ lent' = 0
    /\ UNCHANGED <<db, fkEnforced, nextId, call, stored, trace, ctor, diag, seed>>

\* ------------------------------------------------------- connection strings

\* A connection string is a sequence of characters; None is kept apart from
\* the empty string.
NoUrl == <<"None">>
UrlChars == {"u", ":", "@"}
Urls == SeqsUpTo(UrlChars, MaxUrl)
UrlArgs == Urls \cup {NoUrl}

\* bool(s) for an Optional[str]
Truthy(s) == s # NoUrl /\ s # <<>>
\* a or b
OrElse(a, b) == IF Truthy(a) THEN a ELSE b

\* s.split(sep): the pieces of s between the separators, at least one piece.
RECURSIVE Split(_, _)
Split(s, sep) ==
    IF \A i \in 1 .. Len(s) : s[i] # sep THEN <<s>>
    ELSE LET i == CHOOSE j \in 1 .. Len(s) :
                      s[j] = sep /\ \A h \in 1 .. (j - 1) : s[h] # sep
         IN  <<SubSeq(s, 1, i - 1)>> \o Split(SubSeq(s, i + 1, Len(s)), sep)

Mask == <<":", "*", "*", "*", "*", "@">>

\* connection_string.split('@')[0].split(':')[0] + ":****@" +
\* connection_string.split('@')[1]; the second index is out of range for a
\* string without '@'.
DisplayUrl(s) ==
    LET parts == Split(s, "@")
    IN  IF Len(parts) < 2 THEN [ok |-> FALSE, url |-> <<>>]
        ELSE [ok |-> TRUE, url |-> Split(parts[1], ":")[1] \o Mask \o parts[2]]

\* -------------------------------------------------------------- constructor

CtorOff == [pc |-> "off", explicit |-> NoUrl, env |-> NoUrl, connection_string |-> NoUrl,
            dsn |-> NoUrl, connects |-> 0, exc |-> "none"]

\* The object the other operations are called on: its pool was created.
Constructed(u) ==
    [CtorOff EXCEPT !.pc = "constructed", !.explicit = u, !.connection_string = u,
                    !.dsn = u, !.connects = MinConn]

\* self.connection_string = connection_string or os.getenv('NEON_DATABASE_URL')
CtorResolve ==
    /\ ctor.pc = "start"
    /\ \E explicit \in UrlArgs, env \in UrlArgs :
         ctor' = [ctor EXCEPT !.pc = "resolved", !.explicit = explicit, !.env = env,
                              !.connection_string = OrElse(explicit, env)]
    /\ UNCHANGED <<db, fkEnforced, nextId, pool, lent, closed, call, stored, trace, seed, diag>>

\* A constructor that rejects None only.
CtorCheckNoneOnly ==
    /\ ctor.pc = "resolved"
    /\ ctor' = IF ctor.connection_string = NoUrl
               THEN [ctor EXCEPT !.pc = "raised", !.exc = "ValueError"]
               ELSE [ctor EXCEPT !.pc = "checked"]
    /\ UNCHANGED <<db, fkEnforced, nextId, pool, lent, closed, call, stored, trace, seed, diag>>

\* if not self.connection_string: raise ValueError(...)
CtorCheck ==
    /\ ctor.pc = "resolved"
    /\ ctor' = IF ~Truthy(ctor.connection_string)
               THEN [ctor EXCEPT !.pc = "raised", !.exc = "ValueError"]
               ELSE [ctor EXCEPT !.pc = "checked"]
    /\ UNCHANGED <<db, fkEnforced, nextId, pool, lent, closed, call, stored, trace, seed, diag>>

\* self.pool = ThreadedConnectionPool(minconn=1, maxconn=20, dsn=...): the
\* pool opens minconn connections at once; the first that cannot be opened
\* ends the constructor with the driver's error and without a pool.
CtorPool ==
    /\ ctor.pc = "checked"
    /\ \E up \in BOOLEAN :
         IF up
         THEN /\ ctor' = [ctor EXCEPT !.pc = "constructed", !.dsn = ctor.connection_string,
                                      !.connects = MinConn]
              /\ pool' = [i \in 1 .. MinConn |-> FreshConn]
         ELSE /\ ctor' = [ctor EXCEPT !.pc = "raised", !.dsn = ctor.connection_string,
                                      !.connects = 1, !.exc = "OperationalError"]
              /\ pool' = pool
    /\ UNCHANGED <<db, fkEnforced, nextId, lent, closed, call, stored, trace, seed, diag>>

\* -------------------------------------------------------- diagnostic script

\* The checks main() runs, by the names it reports them under.
Checks == <<"Connection", "Extensions", "Tables", "Views", "Functions", "Sample Queries">>

\* What a check's queries can come to: every query answers and finds what it
\* looks for, a query raises, or the queries answer and what the check looks
\* for (the uuid-ossp extension, a required table, a view, a helper function)
\* is not there.
Findings(name) ==
    IF name \in {"Connection", "Sample Queries"} THEN {"ok", "raise"}
    ELSE {"ok", "raise", "lacking"}

\* The checks that return False from inside their with block when what they
\* look for is not there; the others only warn.
Required == {"Extensions", "Tables"}

DiagOff == [pc |-> "off", connection_string |-> NoUrl, display |-> <<>>, check |-> 0,
            conn |-> "none", result |-> FALSE, results |-> <<>>, unclosed |-> {},
            exc |-> "none", exit |-> 0]

\* connection_string = os.getenv('NEON_DATABASE_URL'); without one the script
\* prints how to set it and exits with status 1.
DiagGetenv ==
    /\ diag.pc = "start"
    /\ \E env \in UrlArgs :
         diag' = IF ~Truthy(env)
                 THEN [diag EXCEPT !.pc = "exited", !.connection_string = env, !.exit = 1]
                 ELSE [diag EXCEPT !.pc = "mask", !.connection_string = env]
    /\ UNCHANGED <<db, fkEnforced, nextId, pool, lent, closed, call, stored, trace, seed, ctor>>

\* display_url = ...; print(...).  The IndexError of a string without '@' is
\* caught nowhere: the interpreter prints the traceback and exits with 1.
DiagMask ==
    /\ diag.pc = "mask"
    /\ LET d == DisplayUrl(diag.connection_string)
       IN  diag' = IF d.ok
                   THEN [diag EXCEPT !.pc = "connect", !.display = d.url, !.check = 1]
                   ELSE [diag EXCEPT !.pc = "exited", !.exc = "IndexError", !.exit = 1]
    /\ UNCHANGED <<db, fkEnforced, nextId, pool, lent, closed, call, stored, trace, seed, ctor>>

\* conn = psycopg2.connect(connection_string) of the check in turn; a failure
\* goes to the check's except block, which returns False.
CheckConnect ==
    /\ diag.pc = "connect"
    /\ \E up \in BOOLEAN :
         diag' = IF up THEN [diag EXCEPT !.pc = "query", !.conn = "open"]
                 ELSE [diag EXCEPT !.pc = "return", !.conn = "none", !.result = FALSE]
    /\ UNCHANGED <<db, fkEnforced, nextId, pool, lent, closed, call, stored, trace, seed, ctor>>

\* with conn.cursor(...) as cursor: the check's queries.  A query that raises
\* goes to the except block (return False); test_extensions and test_tables
\* return False from inside the block when what they look for is not there.
\* Leaving the block closes the cursor, not the connection.
CheckQuery ==
    /\ diag.pc = "query"
    /\ \E f \in Findings(Checks[diag.check]) :
         diag' = IF f = "raise" \/ (f = "lacking" /\ Checks[diag.check] \in Required)
                 THEN [diag EXCEPT !.pc = "return", !.result = FALSE]
                 ELSE [diag EXCEPT !.pc = "close"]
    /\ UNCHANGED <<db, fkEnforced, nextId, pool, lent, closed, call, stored, trace, seed, ctor>>

\* conn.close(); return True
CheckClose ==
    /\ diag.pc = "close"
    /\ diag' = [diag EXCEPT !.pc = "return", !.conn = "closed", !.result = TRUE]
    /\ UNCHANGED <<db, fkEnforced, nextId, pool, lent, closed, call, stored, trace, seed, ctor>>

\* The check returns: results.append((name, result)) and the next check is
\* called, whatever the result.  A connection the check left open stays open.
CheckReturn ==
    /\ diag.pc = "return"
    /\ diag' = [diag EXCEPT
                  !.pc = IF diag.check = Len(Checks) THEN "summary" ELSE "connect",
                  !.check = IF diag.check = Len(Checks) THEN 0 ELSE @ + 1,
                  !.conn = "none",
                  !.results = Append(@, [name |-> Checks[diag.check], result |-> diag.result]),
                  !.unclosed = IF diag.conn = "open" THEN @ \cup {Checks[diag.check]} ELSE @]
    /\ UNCHANGED <<db, fkEnforced, nextId, pool, lent, closed, call, stored, trace, seed, ctor>>

\* passed = sum(1 for _, result in results if result)
Passed(results) == Cardinality({i \in 1 .. Len(results) : results[i].result})

\* The summary: sys.exit(0) if passed == total, else sys.exit(1).
DiagSummary ==
    /\ diag.pc = "summary"
    /\ diag' = [diag EXCEPT !.pc = "exited",
                            !.exit = IF Passed(diag.results) = Len(diag.results) THEN 0 ELSE 1]
    /\ UNCHANGED <<db, fkEnforced, nextId, pool, lent, closed, call, stored, trace, seed, ctor>>

\* ----------------------------------------------------------- specifications

SeedOff == [pc |-> "off", busy |-> FALSE, exc |-> "none", failedAt |-> "none",
            model_id |-> 0, token_embed_id |-> 0, pos_embed_id |-> 0, reactor_id |-> 0,
            model_info |-> NoOut, reactor_status |-> NoOut]

InitWith(dbs, fks, tr) ==
    /\ db \in dbs
    /\ fkEnforced \in fks
    /\ nextId = FirstFreeId
    /\ pool = <<FreshConn>>
    /\ lent = 0
    /\ closed = FALSE
    /\ call = [c \in Callers |-> IdleCall]
    /\ stored = <<>>
    /\ trace = tr
    /\ ctor = Constructed(<<"u">>)
    /\ diag = DiagOff

Init == InitWith(InitDbs, BOOLEAN, TRUE) /\ seed = SeedOff

\* One script using the repositories, one call after another.
Next ==
    \/ CreateModel(Client)
    \/ GetModel(Client)
    \/ ListModels(Client)
    \/ CreateTensor(Client, SeedShapes)
    \/ StoreTensorData(Client)
    \/ CreateReactor(Client)
    \/ AddModelToReactor(Client)
    \/ GetReactorStatus(Client)
    \/ QueryExecute(Client)
    \/ QueryReturn(Client)
    \/ CommandExecute(Client)
    \/ CommandCommit(Client)
    \/ CommandRollback(Client)
    \/ CommandReturn(Client)

Spec == Init /\ [][Next]_vars

\* Independent callers sharing the pool, each in one execute_* call at a time.
InitPool == InitWith({PoolDb}, {TRUE}, FALSE) /\ seed = SeedOff

NextPool ==
    \E c \in Callers :
        \/ ExecuteQuery(c)
        \/ ExecuteCommand(c)
        \/ ExecuteScript(c)
        \/ QueryExecute(c)
        \/ QueryReturn(c)
        \/ CommandExecute(c)
        \/ CommandCommit(c)
        \/ CommandRollback(c)
        \/ CommandReturn(c)
        \/ ScriptRead(c)
        \/ ScriptExecute(c)
        \/ ScriptCommit(c)
        \/ ScriptRollback(c)
        \/ ScriptReturn(c)

SpecPool == InitPool /\ [][NextPool]_vars

\* The seeding script alone, from its first call to close_all.
InitSeed == InitWith(InitDbs, BOOLEAN, TRUE) /\ seed = [SeedOff EXCEPT !.pc = SeedSteps[1]]

NextSeed ==
    \/ SeedCall
    \/ SeedNext
    \/ SeedCloseAll
    \/ QueryExecute(Client)
    \/ QueryReturn(Client)
    \/ CommandExecute(Client)
    \/ CommandCommit(Client)
    \/ CommandRollback(Client)
    \/ CommandReturn(Client)

SpecSeed == InitSeed /\ [][NextSeed]_vars

\* create_tensor over every shape up to MaxRank dimensions of 1 .. MaxDim.
InitTensor == InitWith({PoolDb}, BOOLEAN, TRUE) /\ seed = SeedOff

NextTensor ==
    \/ CreateTensor(Client, Shapes)
    \/ QueryExecute(Client)
    \/ QueryReturn(Client)

SpecTensor == InitTensor /\ [][NextTensor]_vars

\* The constructor alone, from its call to its return or its exception.
InitCtor ==
    /\ db = PoolDb
    /\ fkEnforced = TRUE
    /\ nextId = FirstFreeId
    /\ pool = <<>>
    /\ lent = 0
    /\ closed = FALSE
    /\ call = [c \in Callers |-> IdleCall]
    /\ stored = <<>>
    /\ trace = TRUE
    /\ seed = SeedOff
    /\ ctor = [CtorOff EXCEPT !.pc = "start"]
    /\ diag = DiagOff

NextCtor ==
    \/ CtorResolve
    \/ CtorCheck
    \/ CtorPool

SpecCtor == InitCtor /\ [][NextCtor]_vars

\* The diagnostic script alone: it opens its own connections and builds no
\* pool.
InitDiag ==
    /\ db = PoolDb
    /\ fkEnforced = TRUE
    /\ nextId = FirstFreeId
    /\ pool = <<>>
    /\ lent = 0
    /\ closed = FALSE
    /\ call = [c \in Callers |-> IdleCall]
    /\ stored = <<>>
    /\ trace = TRUE
    /\ seed = SeedOff
    /\ ctor = CtorOff
    /\ diag = [DiagOff EXCEPT !.pc = "start"]

NextDiag ==
    \/ DiagGetenv
    \/ DiagMask
    \/ CheckConnect
    \/ CheckQuery
    \/ CheckClose
    \/ CheckReturn
    \/ DiagSummary

SpecDiag == InitDiag /\ [][NextDiag]_vars

\* ------------------------------------------------------------------- claims

InFlight(c) == call[c].pc # "idle"
\* Caller c's call is over and had reached its try block.
Over(c, fn) == call[c].pc = "idle" /\ call[c].fn = fn /\ call[c].exc # "PoolError"

\* What the statement of a finished call writes, run against the database the
\* call started from.
Effect(k) == Run(k.stmt, k.db0, nextId, fkEnforced)

\* C1: an execute_command call whose statement and commit both succeed leaves
\* exactly the statement's effect committed and has the affected-row count;
\* one whose statement or commit fails has rolled back, raises that same
\* failure and leaves the committed rows as they were before the call.
C1_CommandCommitsOrRollsBack ==
    \A c \in Callers :
        Over(c, "execute_command") =>
            LET k == call[c]
            IN  IF k.exc = "none"
                THEN /\ Effect(k).ok
                     /\ db = ApplyAll(k.db0, Effect(k).writes)
                     /\ k.rowcount = Len(Effect(k).writes)
                     /\ ~k.rolledBack
                     /\ k.out.kind # "raise"
                ELSE /\ k.rolledBack
                     /\ k.out = Raise(k.exc)
                     /\ db = k.db0

\* A command whose statement ran and whose commit then failed.
C1_Witness ==
    /\ Over(Client, "execute_command")
    /\ call[Client].exc = "OperationalError"
    /\ call[Client].rowcount = 1
    /\ call[Client].rolledBack
    /\ db = call[Client].db0

SeedRowsCommitted ==
    /\ seed.model_id # 0 => seed.model_id \in ModelIds(db)
    /\ seed.token_embed_id # 0 => seed.token_embed_id \in TensorIds(db)
    /\ seed.pos_embed_id # 0 => seed.pos_embed_id \in TensorIds(db)
    /\ seed.reactor_id # 0 => seed.reactor_id \in ReactorIds(db)

\* C2: when a step of the seeding sequence fails, the rows inserted by every
\* earlier step that returned are in the committed database.
C2_EarlierStepsStayCommitted ==
    seed.pc = "failed" => SeedRowsCommitted

\* C4: a connection acquired by execute_query, execute_command or
\* execute_script is given back exactly once before the call is over, however
\* it ends; the connections lent out are those of the calls still running, so
\* with every call over none is lent out.
C4_ConnectionGivenBackOnce ==
    /\ lent = Cardinality({c \in Callers : InFlight(c)})
    /\ \A c \in Callers :
         /\ InFlight(c) => call[c].conn # NoConn /\ call[c].puts = 0
         /\ call[c].pc = "idle" /\ call[c].fn # "none" =>
              call[c].puts = IF call[c].exc = "PoolError" THEN 0 ELSE 1

\* Every caller is idle again, one after a script that failed and one after a
\* command that went through.
C4_Witness ==
    /\ \A c \in Callers : call[c].pc = "idle"
    /\ lent = 0
    /\ \E c \in Callers :
         call[c].fn = "execute_script" /\ call[c].exc = "SyntaxError" /\ call[c].puts = 1
    /\ \E c \in Callers :
         call[c].fn = "execute_command" /\ call[c].exc = "none" /\ call[c].puts = 1

\* C5 as stated: no caller is ever turned away because the pool is exhausted.
C5_NeverTurnedAway ==
    \A c \in Callers : call[c].exc # "PoolError"

\* C5, amended: never more than MaxConn connections are lent out; a caller
\* that asks while all MaxConn are lent out is not kept waiting: its call ends
\* at once with PoolError and without a connection; a caller that asks while
\* fewer are lent out gets one.
C5_ExhaustedPoolRaises ==
    /\ [](lent <= MaxConn)
    /\ [][\A c \in Callers :
            (call[c].pc = "idle" /\ call'[c] # call[c]) =>
                IF lent = MaxConn
                THEN /\ call'[c].exc = "PoolError" /\ call'[c].pc = "idle"
                     /\ call'[c].conn = NoConn /\ lent' = lent
                ELSE /\ call'[c].exc = "none" /\ call'[c].pc = "acquired"
                     /\ call'[c].conn # NoConn /\ lent' = lent + 1]_vars

\* All MaxConn connections are lent out and a further caller was turned away.
C5_Witness ==
    /\ lent = MaxConn
    /\ \E c \in Callers : call[c].pc = "idle" /\ call[c].exc = "PoolError"
    /\ Cardinality({c \in Callers : InFlight(c)}) = MaxConn

ChunkKey(r) == <<r.tensor_id, r.chunk_index>>

\* C6: between store_tensor_data calls there is at most one chunk row per
\* (tensor_id, chunk_index); it holds the payload of the last successful store
\* for that pair, with that payload's length as its chunk_size.
C6_OneChunkPerKey ==
    call[Client].pc = "idle" =>
        /\ \A r, q \in db.tensor_data : ChunkKey(r) = ChunkKey(q) => r = q
        /\ {ChunkKey(r) : r \in db.tensor_data} = DOMAIN stored
        /\ \A r \in db.tensor_data :
             /\ r.data_blob = stored[ChunkKey(r)]
             /\ r.chunk_size = Len(stored[ChunkKey(r)])

\* A second store for a pair that held another payload has gone through.
C6_Witness ==
    /\ Over(Client, "execute_command")
    /\ call[Client].method = "store_tensor_data"
    /\ call[Client].exc = "none"
    /\ \E r \in call[Client].db0.tensor_data :
         /\ ChunkKey(r) = <<call[Client].args[1], call[Client].args[3]>>
         /\ r.data_blob # call[Client].args[2]
    /\ Cardinality(db.tensor_data) = Cardinality(call[Client].db0.tensor_data)

\* Whether the identifier a get_model or get_reactor_status call was given
\* names a row of the database the call started from.
Known(k) ==
    IF k.method = "get_model" THEN k.args[1] \in ModelIds(k.db0)
    ELSE k.args[1] \in ReactorIds(k.db0)

SortedByCreatedDesc(rows) ==
    \A i, j \in 1 .. Len(rows) : i < j => rows[i].created_at >= rows[j].created_at

\* The rows are exactly `expected`, each once, newest first.
Lists(rows, expected) ==
    /\ {rows[i] : i \in 1 .. Len(rows)} = expected
    /\ Len(rows) = Cardinality(expected)
    /\ SortedByCreatedDesc(rows)

ListModelsOver(c) ==
    /\ Over(c, "execute_query") /\ call[c].method = "list_models"
    /\ call[c].exc = "none"

\* C8 as stated: with a status filter (anything but None) list_models returns
\* the rows with that status, newest first; without one, all rows.
C8_FilterAsStated ==
    \A c \in Callers :
        ListModelsOver(c) =>
            LET k == call[c]
            IN  Lists(k.out.rows,
                      IF k.args[1] # NoStatus
                      THEN {r \in k.db0.models : r.status = k.args[1]}
                      ELSE k.db0.models)

\* C8, amended: with a non-empty status filter list_models returns the rows
\* with that status, newest first; with None or the empty string, all rows,
\* newest first.
C8_NonEmptyFilter ==
    \A c \in Callers :
        ListModelsOver(c) =>
            LET k == call[c]
            IN  Lists(k.out.rows,
                      IF k.args[1] \notin {NoStatus, ""}
                      THEN {r \in k.db0.models : r.status = k.args[1]}
                      ELSE k.db0.models)

\* list_models("active") on the three models returned two of them.
C8_Witness ==
    /\ ListModelsOver(Client)
    /\ call[Client].args[1] = "active"
    /\ call[Client].db0.models = InitModelRows
    /\ Len(call[Client].out.rows) = 2

\* The product of a shape's dimensions, 1 for the empty shape.
RECURSIVE ShapeProduct(_)
ShapeProduct(shape) ==
    IF shape = <<>> THEN 1
    ELSE shape[Len(shape)] * ShapeProduct(SubSeq(shape, 1, Len(shape) - 1))

\* C9: the total_elements create_tensor sends, and the pending row holds once
\* the INSERT ran, is the product of the shape's dimensions, 1 for the empty
\* shape.
C9_TotalElementsIsProduct ==
    \A c \in Callers :
        LET k == call[c]
        IN  k.method = "create_tensor" =>
              /\ k.stmt.total_elements = ShapeProduct(k.args[2])
              /\ \A i \in 1 .. Len(k.conn.pending) :
                   /\ k.conn.pending[i].row.shape = k.args[2]
                   /\ k.conn.pending[i].row.total_elements = ShapeProduct(k.args[2])

\* The INSERT of a tensor of MaxRank dimensions ran.
C9_Witness ==
    /\ call[Client].method = "create_tensor"
    /\ call[Client].pc = "executed"
    /\ Len(call[Client].args[2]) = MaxRank
    /\ Len(call[Client].conn.pending) = 1
    /\ call[Client].conn.pending[1].row.total_elements > 1

\* C10: unless a statement is rejected for external reasons, the seeding
\* sequence completes every step, the membership row for (R, M) is committed
\* and get_reactor_status(R) returned a record with one active model.
C10_SeedingLinksModel ==
    (seed.pc \in {"done", "failed"} /\ seed.exc # "OperationalError") =>
        /\ seed.pc = "done"
        /\ \E m \in db.reactor_models :
             m.reactor_id = seed.reactor_id /\ m.model_id = seed.model_id
        /\ seed.reactor_status.kind = "row"
        /\ seed.reactor_status.rows[1].active_models = 1

\* The names of the checks that have returned, in the order they were run.
Ran == [i \in 1 .. Len(diag.results) |-> diag.results[i].name]

\* C11: with a connection string configured the diagnostic script runs the six
\* checks in order, whatever each returns, and exits with status 0 exactly
\* when every check passed, with 1 otherwise; with none configured it exits
\* with status 1 and runs no check.
C11_ExitStatusReflectsChecks ==
    diag.pc = "exited" =>
        IF Truthy(diag.connection_string)
        THEN /\ Ran = Checks
             /\ diag.exit = (IF \A i \in 1 .. Len(diag.results) : diag.results[i].result
                             THEN 0 ELSE 1)
        ELSE /\ Ran = <<>>
             /\ diag.exit = 1

\* The constructor has returned or raised.
CtorOver == ctor.pc \in {"constructed", "raised"}

\* C12: a constructor given neither an explicit connection string nor one in
\* NEON_DATABASE_URL raises ValueError before any connection is opened or any
\* pool exists; given either, it creates the pool from that string (the
\* explicit one when both are given), unless the connection cannot be opened.
C12_ConstructorFailsFast ==
    /\ ctor.pc \in {"start", "resolved", "checked"} => pool = <<>> /\ ctor.connects = 0
    /\ CtorOver =>
         IF ~Truthy(ctor.explicit) /\ ~Truthy(ctor.env)
         THEN /\ ctor.pc = "raised" /\ ctor.exc = "ValueError"
              /\ ctor.connects = 0 /\ pool = <<>>
         ELSE /\ ctor.exc # "ValueError"
              /\ ctor.dsn = (IF Truthy(ctor.explicit) THEN ctor.explicit ELSE ctor.env)
              /\ ctor.connects > 0
              /\ ctor.exc = "none" =>
                   /\ ctor = [Constructed(ctor.dsn) EXCEPT !.explicit = ctor.explicit,
                                                            !.env = ctor.env]
                   /\ pool = <<FreshConn>>

\* The constructor, given an empty string and no NEON_DATABASE_URL, raised
\* ValueError with nothing opened.
C12_Witness ==
    /\ ctor.pc = "raised" /\ ctor.exc = "ValueError"
    /\ ctor.explicit = <<>> /\ ctor.env = NoUrl
    /\ ctor.connects = 0 /\ pool = <<>>

\* C13: whenever execute_query, execute_command or execute_script has handed
\* its connection back to the pool, the call had committed or rolled back
\* first: the connection went back with no transaction open or failed.
C13_ReturnedWithTransactionEnded ==
    \A c \in Callers :
        (call[c].pc = "idle" /\ call[c].puts > 0) => call[c].putStatus = "idle"

\* C14: every diagnostic check has closed the connection it opened by the time
\* it returns, whatever it returns: no check that has returned has left a
\* connection open.
C14_ChecksCloseTheirConnection ==
    /\ diag.unclosed = {}
    /\ diag.pc = "return" => diag.conn # "open"

====
